---- MODULE Spec2Model ----
(***************************************************************************)
(* A model of the asciirast Python binding (package py_asciirast): the     *)
(* colour codec wrappers, the Canvas wrapper class with its depth type,    *)
(* its render call and its finalizer, the draw_point / draw_line wrappers  *)
(* and the hidden_cursor context manager.  The wrappers marshal their      *)
(* arguments and call a native library through ctypes; the native routines *)
(* are not part of the Python sources and are modelled from the written    *)
(* specification (they are the operators named after the C symbols:        *)
(* color_encode_rgb, canvas_create, canvas_destroy, canvas_clear,          *)
(* canvas_plot, native_draw_point, native_draw_line,                       *)
(* canvas_print_formatted, canvas_print_formatted_wo_bg).                  *)
(*                                                                         *)
(* Conventions.  A Python str is a sequence of character codes.  None for  *)
(* an optional colour is the empty tuple.  An RGBColor is <<r, g, b>>.     *)
(* A raised exception is recorded in last.result.                          *)
(***************************************************************************)
EXTENDS Integers, Sequences, FiniteSets, TLC

VARIABLES self, native, last, colors, depths, rendered, files, cursor, handles

vars == <<self, native, last, colors, depths, rendered, files, cursor, handles>>

\* what the canvas operations other than print_formatted leave alone: the depth
\* samples, the text of the latest render, the stream wrappers and the cursor
io == <<depths, rendered, files, cursor>>

-----------------------------------------------------------------------------
(* Bounds of the model *)

\* width and height of the canvas the canvas specifications start from
CanvasW == 2
CanvasH == 1
\* plot / draw_point coordinates range over -Slack .. dimension-1+Slack
Slack == 1
\* width and height of the canvas the line specification draws on
LineW == 5
LineH == 4
\* depth arguments range over 0 .. MaxDepth
MaxDepth == 1
\* height of the tallest canvas the render specification starts from
RenderH == 2
\* the Canvas objects constructed in one run of the lifetime specification
MaxObjects == 2
\* the with-blocks entered in one run of the cursor specification
MaxBlocks == 2
\* the float depth arguments are the multiples of 2^-DepthBits in [0, 1]
DepthBits == 3

-----------------------------------------------------------------------------
(* ctypes conversions *)

\* ctypes c_uint8 / c_uint32 do no overflow checking: the value wraps
CUint8(v) == v % 256

\* An unsigned 32-bit value is the pair <<high 16 bits, low 16 bits>>, so that
\* the wrapped image of a negative Python int (-1 becomes 2^32 - 1) is
\* representable.  CUint32(v) is v mod 2^32 in that form.
CUint32(v) == <<(v \div 65536) % 65536, v % 65536>>
U32Less(a, b) == a[1] < b[1] \/ (a[1] = b[1] /\ a[2] < b[2])
\* the integer an unsigned value below 2^31 stands for
U32Int(a) == a[1] * 65536 + a[2]

\* ctypes c_float: a Python int becomes the nearest binary32 value; every
\* integer of magnitude up to 2^24 is represented exactly, between 2^24 and
\* 2^25 only the even ones are.
CFloat(v) ==
    IF -16777216 <= v /\ v <= 16777216 THEN v
    ELSE IF v > 0 THEN 2 * ((v + 1) \div 2) ELSE -(2 * ((1 - v) \div 2))

-----------------------------------------------------------------------------
(* Colour codec *)

NoneColor == <<>>

\* the native codec: a colour packed as r<<16 | g<<8 | b
color_encode_rgb(r, g, b) == r * 65536 + g * 256 + b
color_decode_rgb(v) == <<v[1] % 256, (v[2] \div 256) % 256, v[2] % 256>>

\* RGBColor.to_rgb_c: RGBColor_c(self.r, self.g, self.b), three c_uint8 fields
to_rgb_c(c) == <<CUint8(c[1]), CUint8(c[2]), CUint8(c[3])>>

\* RGBColor.encode with the red and green arguments exchanged
RGBColor_encode_swapped(c) == color_encode_rgb(CUint8(c[2]), CUint8(c[1]), CUint8(c[3]))

\* RGBColor.encode / encode_rgb: f(self.r, self.g, self.b) with argtypes c_uint8
RGBColor_encode(c) == color_encode_rgb(CUint8(c[1]), CUint8(c[2]), CUint8(c[3]))

\* EncodedRGBColor.decode / decode_rgb: RGBColor(res.r, res.g, res.b)
EncodedRGBColor_decode(v) ==
    LET res == color_decode_rgb(CUint32(v)) IN <<res[1], res[2], res[3]>>

\* RGBColor_c.encode, as the native canvas packs a colour argument for a cell
RGBColor_c_encode(c) == color_encode_rgb(c[1], c[2], c[3])

\* the constructor's default colours
DefaultFg == <<255, 255, 255>>
DefaultBg == <<0, 0, 0>>
\* the constructor's default glyph " "
DefaultGlyph == <<32>>

-----------------------------------------------------------------------------
(* The native canvas *)

\* isprint: 0x20 .. 0x7E
IsPrintable(c) == 32 <= c /\ c <= 126

\* the depth a cleared cell holds
NativeDefaultDepth == 0

\* the depth test: the larger (nearer) depth wins, an equal depth overwrites
DepthTestPasses(new, old) == ~U32Less(new, old)

Cells(w, h) == (0 .. w - 1) \X (0 .. h - 1)

NoCanvas ==
    [allocated |-> FALSE, w |-> 0, h |-> 0,
     default_fg |-> 0, default_bg |-> 0, default_char |-> 0,
     default_depth |-> CUint32(0),
     cells |-> [p \in {} |-> 0]]

DefaultCell(nc) ==
    [glyph |-> nc.default_char, fg |-> nc.default_fg, bg |-> nc.default_bg,
     depth |-> nc.default_depth]

\* canvas_create(w, h, default_fg, default_bg, default_char): a canvas with
\* every cell at the defaults, or NULL (no canvas) for a zero dimension or a
\* default glyph that is not printable
canvas_create(w, h, fg_c, bg_c, ch) ==
    IF U32Int(w) = 0 \/ U32Int(h) = 0 \/ ~IsPrintable(ch) THEN NoCanvas
    ELSE LET nc == [allocated |-> TRUE, w |-> U32Int(w), h |-> U32Int(h),
                    default_fg |-> RGBColor_c_encode(fg_c),
                    default_bg |-> RGBColor_c_encode(bg_c),
                    default_char |-> ch, default_depth |-> CUint32(NativeDefaultDepth),
                    cells |-> [p \in {} |-> 0]]
         IN [nc EXCEPT !.cells = [p \in Cells(U32Int(w), U32Int(h)) |-> DefaultCell(nc)]]

\* canvas_clear(handle): every cell back to the defaults, in one pass
canvas_clear(nc) == [nc EXCEPT !.cells = [p \in DOMAIN nc.cells |-> DefaultCell(nc)]]

\* canvas_destroy(handle): the canvas is freed
canvas_destroy(nc) == NoCanvas

\* the cell a plot call writes
PlottedCell(d, fg_c, bg_c, ch) ==
    [glyph |-> ch, fg |-> RGBColor_c_encode(fg_c), bg |-> RGBColor_c_encode(bg_c),
     depth |-> d]

\* the clipping plot the rasterizer uses, on cell coordinates: outside the grid
\* a no-op, a glyph that is not printable is rejected, and the cell is written
\* (all four fields) only when the depth test passes
clip_plot(nc, x, y, d, fg_c, bg_c, ch) ==
    IF ~(0 <= x /\ x < nc.w /\ 0 <= y /\ y < nc.h) THEN nc
    ELSE IF ~IsPrintable(ch) THEN nc
    ELSE IF ~DepthTestPasses(d, nc.cells[<<x, y>>].depth) THEN nc
    ELSE [nc EXCEPT !.cells[<<x, y>>] = PlottedCell(d, fg_c, bg_c, ch)]

\* canvas_plot(handle, x, y, depth, fg, bg, c) with x, y, depth unsigned.  Inside the
\* grid it is the clipping plot.  Its contract requires x < w and y < h; what
\* it does outside is not defined: the call may do nothing, may end the
\* process, or may write the cell at some wrapped index.  The set of possible
\* outcomes, each [nc |-> the canvas afterwards, abort |-> process ended].
canvas_plot(nc, x, y, d, fg_c, bg_c, ch) ==
    IF U32Less(x, CUint32(nc.w)) /\ U32Less(y, CUint32(nc.h))
    THEN {[nc |-> clip_plot(nc, U32Int(x), U32Int(y), d, fg_c, bg_c, ch), abort |-> FALSE]}
    ELSE {[nc |-> nc, abort |-> FALSE], [nc |-> nc, abort |-> TRUE]}
         \cup {[nc |-> clip_plot(nc, p[1], p[2], d, fg_c, bg_c, ch), abort |-> FALSE] :
                  p \in DOMAIN nc.cells}

-----------------------------------------------------------------------------
(* The native rasterizer *)

Abs(v) == IF v < 0 THEN -v ELSE v

\* the integer error-accumulation stepping of a segment: the cells from (x, y)
\* to (x1, y1), both included
RECURSIVE LineFrom(_, _, _, _, _, _, _, _, _)
LineFrom(x, y, x1, y1, dx, dy, sx, sy, err) ==
    IF x = x1 /\ y = y1 THEN << <<x, y>> >>
    ELSE LET e2 == 2 * err
             stepx == e2 >= dy
             stepy == e2 <= dx
         IN << <<x, y>> >> \o
            LineFrom(IF stepx THEN x + sx ELSE x, IF stepy THEN y + sy ELSE y,
                     x1, y1, dx, dy, sx, sy,
                     err + (IF stepx THEN dy ELSE 0) + (IF stepy THEN dx ELSE 0))

LineCells(x0, y0, x1, y1) ==
    LET dx == Abs(x1 - x0)
        dy == -Abs(y1 - y0)
    IN LineFrom(x0, y0, x1, y1, dx, dy,
                IF x0 < x1 THEN 1 ELSE -1, IF y0 < y1 THEN 1 ELSE -1, dx + dy)

\* draw_point(handle, x, y, depth, fg, bg, c): the clipping plot at the cell
\* the (already integral) float coordinates truncate to
native_draw_point(nc, x, y, d, fg_c, bg_c, ch) == clip_plot(nc, x, y, d, fg_c, bg_c, ch)

RECURSIVE PlotAll(_, _, _, _, _, _)
PlotAll(nc, cs, d, fg_c, bg_c, ch) ==
    IF cs = <<>> THEN nc
    ELSE PlotAll(clip_plot(nc, Head(cs)[1], Head(cs)[2], d, fg_c, bg_c, ch),
                 Tail(cs), d, fg_c, bg_c, ch)

\* draw_line(handle, x0, y0, x1, y1, depth, fg, bg, c): every cell of the
\* segment through the clipping plot, with the same attributes
native_draw_line(nc, x0, y0, x1, y1, d, fg_c, bg_c, ch) ==
    PlotAll(nc, LineCells(x0, y0, x1, y1), d, fg_c, bg_c, ch)

-----------------------------------------------------------------------------
(* The Python wrappers *)

\* the record of the latest call: its arguments, whether it got as far as the
\* native routine, the cells a line visited, and how it ended ("ok", the name
\* of the exception raised, "abort" when the process ended, "pending" for a
\* call not yet made)
CallRec(op, x, y, x1, y1, glyph, fg, bg, depth) ==
    [op |-> op, x |-> x, y |-> y, x1 |-> x1, y1 |-> y1, glyph |-> glyph,
     fg |-> fg, bg |-> bg, depth |-> depth,
     reached |-> FALSE, cells |-> <<>>, result |-> "pending"]

NoCall == [CallRec("none", 0, 0, 0, 0, <<>>, NoneColor, NoneColor, 0) EXCEPT !.result = "ok"]

Running == last.result # "abort"

\* no Canvas object yet
NoSelf ==
    [exists |-> FALSE, obj |-> 0, width |-> 0, height |-> 0,
     default_fg_color_c |-> DefaultFg, default_bg_color_c |-> DefaultBg,
     default_ascii_char_c |-> 32]

\* the native canvas handles: how many canvas_create returned, and how many
\* canvas_destroy calls were made
NoHandles == [created |-> 0, destroyed |-> 0]

\* Canvas.__del__ calling canvas_destroy whatever _obj holds
DelReturnsEarly_never(obj) == FALSE

\* Canvas.__del__: if not self._obj: return
DelReturnsEarly(obj) == obj = 0

\* the canvas_destroy calls counted after __del__ ran on an object holding obj
Del_handles(obj, hs) ==
    IF DelReturnsEarly(obj) THEN hs ELSE [hs EXCEPT !.destroyed = @ + 1]

\* ord(ascii_char[0]): the first character, whatever the length
OrdFirst(s) == s[1]

\* the depth argument's default, CanvasDepth.from_int(1)
DefaultPlotDepth == 1

\* Canvas.__init__(width, height, default_fg_color, default_bg_color,
\* default_ascii_char).  _obj is 0 for None (a NULL handle), 1 for the canvas.
\* When ord(default_ascii_char[0]) raises, the object is dropped with _obj
\* still None and its __del__ runs.
Canvas_init(width, height, default_fg_color, default_bg_color, default_ascii_char) ==
    /\ ~self.exists
    /\ Running
    /\ LET call == CallRec("init", width, height, 0, 0, default_ascii_char,
                           default_fg_color, default_bg_color, 0)
       IN IF Len(default_ascii_char) = 0
          THEN /\ last' = [call EXCEPT !.result = "IndexError"]
               /\ handles' = Del_handles(0, handles)
               /\ UNCHANGED <<self, native>>
          ELSE LET fg_c == to_rgb_c(default_fg_color)
                   bg_c == to_rgb_c(default_bg_color)
                   ch == OrdFirst(default_ascii_char)
                   nc == canvas_create(CUint32(width), CUint32(height), fg_c, bg_c, ch)
               IN /\ native' = nc
                  /\ self' = [exists |-> TRUE, obj |-> IF nc.allocated THEN 1 ELSE 0,
                              width |-> width, height |-> height,
                              default_fg_color_c |-> fg_c, default_bg_color_c |-> bg_c,
                              default_ascii_char_c |-> ch]
                  /\ last' = [call EXCEPT !.result = "ok", !.reached = TRUE]
                  /\ handles' = [handles EXCEPT
                                    !.created = @ + (IF nc.allocated THEN 1 ELSE 0)]
    /\ UNCHANGED <<colors, io>>

\* Canvas.__del__, run by the interpreter when the last reference to the
\* object is dropped: canvas_destroy(self._obj) unless _obj is None
Canvas_del ==
    /\ self.exists
    /\ Running
    /\ native' = IF DelReturnsEarly(self.obj) THEN native ELSE canvas_destroy(native)
    /\ handles' = Del_handles(self.obj, handles)
    /\ self' = NoSelf
    /\ last' = [CallRec("del", 0, 0, 0, 0, <<>>, NoneColor, NoneColor, 0)
                   EXCEPT !.result = "ok", !.reached = ~DelReturnsEarly(self.obj)]
    /\ UNCHANGED <<colors, io>>

\* Canvas.clear with the native call left out
Canvas_clear_skipped ==
    /\ self.exists
    /\ Running
    /\ last' = [CallRec("clear", 0, 0, 0, 0, <<>>, NoneColor, NoneColor, 0)
                   EXCEPT !.result = "ok"]
    /\ UNCHANGED <<self, native, colors, io, handles>>

\* Canvas.clear: canvas_clear(self._obj); a NULL handle ends the process
Canvas_clear ==
    /\ self.exists
    /\ Running
    /\ LET call == [CallRec("clear", 0, 0, 0, 0, <<>>, NoneColor, NoneColor, 0)
                       EXCEPT !.reached = TRUE]
       IN IF self.obj = 0
          THEN last' = [call EXCEPT !.result = "abort"] /\ UNCHANGED native
          ELSE last' = [call EXCEPT !.result = "ok"] /\ native' = canvas_clear(native)
    /\ UNCHANGED <<self, colors, io, handles>>

\* the bounds check of Canvas.plot: not x < self._width or not y < self._height
PlotOutOfBounds(x, y, width, height) == ~(x < width) \/ ~(y < height)

\* the colour resolution that ignores the argument
ResolveColor_default(color, default_c) == default_c

\* default if not color else color.to_rgb_c()
ResolveColor(color, default_c) == IF color = NoneColor THEN default_c ELSE to_rgb_c(color)

\* the depth marshalling that passes the default depth
PlotDepthArg_default(depth_value) == CUint32(DefaultPlotDepth)

\* depth_value.value passed as c_uint32
PlotDepthArg(depth_value) == CUint32(depth_value)

\* the colour arguments of the native call exchanged
PlotColorArgs_swapped(fg_c, bg_c) == <<bg_c, fg_c>>

\* the colour arguments of the native call: fg_color_c, bg_color_c
PlotColorArgs(fg_c, bg_c) == <<fg_c, bg_c>>

\* Canvas.plot(x, y, ascii_char, fg_color, bg_color, depth_value)
Canvas_plot(x, y, ascii_char, fg_color, bg_color, depth_value) ==
    /\ self.exists
    /\ Running
    /\ LET call == CallRec("plot", x, y, 0, 0, ascii_char, fg_color, bg_color, depth_value)
           fg_c == ResolveColor(fg_color, self.default_fg_color_c)
           bg_c == ResolveColor(bg_color, self.default_bg_color_c)
           cs == PlotColorArgs(fg_c, bg_c)
       IN IF PlotOutOfBounds(x, y, self.width, self.height)
          THEN last' = [call EXCEPT !.result = "OutOfBounds"] /\ UNCHANGED native
          ELSE IF Len(ascii_char) = 0
          THEN last' = [call EXCEPT !.result = "IndexError"] /\ UNCHANGED native
          ELSE IF self.obj = 0
          THEN last' = [call EXCEPT !.result = "abort", !.reached = TRUE]
               /\ UNCHANGED native
          ELSE \E out \in canvas_plot(native, CUint32(x), CUint32(y),
                                      PlotDepthArg(depth_value), cs[1], cs[2],
                                      OrdFirst(ascii_char)) :
                  /\ native' = out.nc
                  /\ last' = [call EXCEPT !.reached = TRUE,
                                          !.result = IF out.abort THEN "abort" ELSE "ok"]
    /\ UNCHANGED <<self, colors, io, handles>>

\* the coordinates of the native call exchanged
PointArgs_swapped(x, y) == <<CFloat(y), CFloat(x)>>

\* the two coordinates as draw_point passes them, each a c_float
PointArgs(x, y) == <<CFloat(x), CFloat(y)>>

\* draw_point(canvas, x, y, ascii_char, fg_color, bg_color, depth)
draw_point(x, y, ascii_char, fg_color, bg_color, depth) ==
    /\ self.exists
    /\ Running
    /\ LET call == CallRec("draw_point", x, y, 0, 0, ascii_char, fg_color, bg_color, depth)
           fg_c == ResolveColor(fg_color, self.default_fg_color_c)
           bg_c == ResolveColor(bg_color, self.default_bg_color_c)
           a == PointArgs(x, y)
       IN IF Len(ascii_char) = 0
          THEN last' = [call EXCEPT !.result = "IndexError"] /\ UNCHANGED native
          ELSE IF self.obj = 0
          THEN last' = [call EXCEPT !.result = "abort", !.reached = TRUE]
               /\ UNCHANGED native
          ELSE /\ native' = native_draw_point(native, a[1], a[2], CUint32(depth),
                                              fg_c, bg_c, OrdFirst(ascii_char))
               /\ last' = [call EXCEPT !.reached = TRUE, !.result = "ok"]
    /\ UNCHANGED <<self, colors, io, handles>>

\* the endpoint marshalling with the second endpoint's coordinates exchanged
LineArgs_swapped(x0, y0, x1, y1) == <<CFloat(x0), CFloat(y0), CFloat(y1), CFloat(x1)>>

\* the four endpoint coordinates as draw_line passes them, each a c_float
LineArgs(x0, y0, x1, y1) == <<CFloat(x0), CFloat(y0), CFloat(x1), CFloat(y1)>>

\* draw_line(canvas, x0, y0, x1, y1, ascii_char, fg_color, bg_color, depth)
draw_line(x0, y0, x1, y1, ascii_char, fg_color, bg_color, depth) ==
    /\ self.exists
    /\ Running
    /\ LET call == CallRec("draw_line", x0, y0, x1, y1, ascii_char, fg_color, bg_color, depth)
           fg_c == ResolveColor(fg_color, self.default_fg_color_c)
           bg_c == ResolveColor(bg_color, self.default_bg_color_c)
           a == LineArgs(x0, y0, x1, y1)
       IN IF Len(ascii_char) = 0
          THEN last' = [call EXCEPT !.result = "IndexError"] /\ UNCHANGED native
          ELSE IF self.obj = 0
          THEN last' = [call EXCEPT !.result = "abort", !.reached = TRUE]
               /\ UNCHANGED native
          ELSE /\ native' = native_draw_line(native, a[1], a[2], a[3], a[4], CUint32(depth),
                                             fg_c, bg_c, OrdFirst(ascii_char))
               /\ last' = [call EXCEPT !.reached = TRUE, !.result = "ok",
                                       !.cells = LineCells(a[1], a[2], a[3], a[4])]
    /\ UNCHANGED <<self, colors, io, handles>>

-----------------------------------------------------------------------------
(* The native renderer.  What it writes is a sequence of tokens: a          *)
(* foreground escape ESC[38;2;r;g;bm ("fg", with the packed colour), a      *)
(* background escape ESC[48;2;r;g;bm ("bg"), a glyph, the reset ESC[0m and  *)
(* the newline                                                              *)

Tok(k, v) == [k |-> k, v |-> v]

\* no colour has been emitted since the last reset
NoEmitted == -1

\* an escape is emitted for every cell, changed or not
ColorChanged_always(color, emitted) == TRUE

\* an escape is due when the cell's colour differs from the emitted state
ColorChanged(color, emitted) == color # emitted

\* a row ended by the newline alone
RowEnd_no_reset == <<Tok("nl", 0)>>

\* the end of a row: the reset, then the newline
RowEnd == <<Tok("reset", 0), Tok("nl", 0)>>

\* the end of the frame: the reset
FrameEnd == <<Tok("reset", 0)>>

\* the cells of row y from column x on, given the emitted colour state
RECURSIVE RenderRow(_, _, _, _, _, _)
RenderRow(nc, y, x, with_bg, efg, ebg) ==
    IF x >= nc.w THEN RowEnd
    ELSE LET c == nc.cells[<<x, y>>]
             fgs == IF ColorChanged(c.fg, efg) THEN <<Tok("fg", c.fg)>> ELSE <<>>
             bgs == IF with_bg /\ ColorChanged(c.bg, ebg) THEN <<Tok("bg", c.bg)>> ELSE <<>>
         IN fgs \o bgs \o <<Tok("glyph", c.glyph)>>
               \o RenderRow(nc, y, x + 1, with_bg, c.fg, IF with_bg THEN c.bg ELSE ebg)

\* the rows from y on; every row starts with no colour emitted
RECURSIVE RenderRows(_, _, _)
RenderRows(nc, y, with_bg) ==
    IF y >= nc.h THEN FrameEnd
    ELSE RenderRow(nc, y, 0, with_bg, NoEmitted, NoEmitted) \o RenderRows(nc, y + 1, with_bg)

\* canvas_print_formatted(handle, FILE*): foreground and background colours
canvas_print_formatted(nc) == RenderRows(nc, 0, TRUE)

\* canvas_print_formatted_wo_bg(handle, FILE*): foreground colours only
canvas_print_formatted_wo_bg(nc) == RenderRows(nc, 0, FALSE)

-----------------------------------------------------------------------------
(* Canvas.print_formatted and the stream wrapper OutputFileDescriptor_c *)

\* the text streams a caller passes as out
Streams == {"stdout", "stderr"}

\* per stream: whether the cache of OutputFileDescriptor_c holds a wrapper
\* for it, and whether the FILE* that wrapper got from fdopen is open
NoFiles == [s \in Streams |-> [cached |-> FALSE, open |-> FALSE]]

\* the latest render: the stream, the mode and the tokens written
NoRender == [stream |-> "none", with_bg |-> FALSE, tokens |-> <<>>]

\* OutputFileDescriptor_c(out) under functools.cache: the first call for a
\* stream runs __init__, which fdopen()s the stream's descriptor; every later
\* call returns the cached wrapper.  Nothing drops a wrapper from the cache,
\* so its __del__ (the fclose) does not run while the program runs.
OutputFileDescriptor_c(fs, out) ==
    IF fs[out].cached THEN fs
    ELSE [fs EXCEPT ![out] = [cached |-> TRUE, open |-> TRUE]]

\* the routine selection with the two modes exchanged
PrintWithBg_swapped(with_bg) == ~with_bg

\* "canvas_print_formatted" + ("_wo_bg" if not with_bg else ""): TRUE selects
\* canvas_print_formatted, FALSE canvas_print_formatted_wo_bg
PrintWithBg(with_bg) == with_bg

\* Canvas.print_formatted(out, with_bg): f(self._obj, OutputFileDescriptor_c(out).FILE_ptr)
Canvas_print_formatted(out, with_bg) ==
    /\ self.exists
    /\ Running
    /\ files' = OutputFileDescriptor_c(files, out)
    /\ LET call == [CallRec("print", 0, 0, 0, 0, <<>>, NoneColor, NoneColor, 0)
                       EXCEPT !.reached = TRUE]
       IN IF self.obj = 0
          THEN last' = [call EXCEPT !.result = "abort"] /\ UNCHANGED rendered
          ELSE /\ last' = [call EXCEPT !.result = "ok"]
               /\ rendered' =
                     [stream |-> out, with_bg |-> with_bg,
                      tokens |-> IF PrintWithBg(with_bg)
                                 THEN canvas_print_formatted(native)
                                 ELSE canvas_print_formatted_wo_bg(native)]
    /\ UNCHANGED <<self, native, colors, depths, cursor, handles>>

-----------------------------------------------------------------------------
(* printutils.hidden_cursor, a generator-based context manager *)

\* pc: "outside" any with-block or in its "body"; hidden: the cursor state the
\* last sequence written selects; hides / shows: how many ESC[?25l / ESC[?25h
\* were written; exit: how the latest block was left
NoCursor == [pc |-> "outside", hidden |-> FALSE, hides |-> 0, shows |-> 0, exit |-> "none"]

\* the exceptions a canvas call raises, as the body of a with-block sees them
Raised == {"OutOfBounds", "IndexError"}

\* entering the block: out.write("\033[?25l"), then the yield
hidden_cursor_enter ==
    /\ Running
    /\ cursor.pc = "outside"
    /\ cursor' = [cursor EXCEPT !.pc = "body", !.hidden = TRUE, !.hides = @ + 1]
    /\ last' = [CallRec("hidden_cursor", 0, 0, 0, 0, <<>>, NoneColor, NoneColor, 0)
                   EXCEPT !.result = "ok"]
    /\ UNCHANGED <<self, native, colors, depths, rendered, files, handles>>

\* leaving the block.  exc is "none" when the body completed: the generator
\* resumes after the yield and writes "\033[?25h".  Otherwise exc is thrown at
\* the yield: the except clause catches KeyboardInterrupt and writes
\* "\033[?25h"; any other exception matches no clause and propagates with
\* nothing written.
hidden_cursor_exit(exc) ==
    /\ Running
    /\ cursor.pc = "body"
    /\ cursor' = IF exc \in {"none", "KeyboardInterrupt"}
                 THEN [cursor EXCEPT !.pc = "outside", !.hidden = FALSE,
                                     !.shows = @ + 1, !.exit = exc]
                 ELSE [cursor EXCEPT !.pc = "outside", !.exit = exc]
    /\ UNCHANGED <<self, native, last, colors, depths, rendered, files, handles>>

-----------------------------------------------------------------------------
(* CanvasDepth.  A Python int too wide for a machine word is the pair       *)
(* <<hi, lo>> standing for hi * 65536 + lo (0 <= lo < 65536).  A float      *)
(* argument is k / FloatUnit, a dyadic fraction a double holds exactly; so  *)
(* is its product with 2**32 - 1, which has fewer than 53 bits.             *)

\* k * (2**32 - 1)
TimesUint32Max(k) ==
    LET a == k * 65535 IN <<a + a \div 65536, a % 65536>>

\* k * 2**32
TimesPow32(k) == <<k * 65536, 0>>

\* (int)(v / d), v not negative: the quotient truncated
WideDiv(v, d) == <<v[1] \div d, ((v[1] % d) * 65536 + v[2]) \div d>>

\* the order of two wide ints
WideLeq(a, b) == a[1] < b[1] \/ (a[1] = b[1] /\ a[2] <= b[2])

\* a wide int passed as c_uint32: reduced modulo 2**32
CUint32W(v) == <<v[1] % 65536, v[2]>>

\* from_float scaling by 2**32
CanvasDepth_from_float_pow32(k, unit) == WideDiv(TimesPow32(k), unit)

\* CanvasDepth.from_float(x) for x = k / unit: (int)(x * (2**32 - 1))
CanvasDepth_from_float(k, unit) == WideDiv(TimesUint32Max(k), unit)

\* CanvasDepth.from_int(x): CanvasDepth(x)
CanvasDepth_from_int(n) == n

\* the samples of the depth specification: two float arguments x and y
\* (numerators over FloatUnit), an int argument n, and the .value of the
\* CanvasDepth built from each (<<>>: not built yet)
DepthSamples(x, y, n) == [x |-> x, y |-> y, n |-> n, fx |-> <<>>, fy |-> <<>>, fn |-> <<>>]

NoDepths == DepthSamples(0, 0, <<0, 0>>)

FromFloat(unit) ==
    /\ depths.fx = <<>>
    /\ depths' = [depths EXCEPT !.fx = CanvasDepth_from_float(depths.x, unit),
                                !.fy = CanvasDepth_from_float(depths.y, unit)]
    /\ UNCHANGED <<self, native, last, colors, rendered, files, cursor, handles>>

FromInt ==
    /\ depths.fn = <<>>
    /\ depths' = [depths EXCEPT !.fn = CanvasDepth_from_int(depths.n)]
    /\ UNCHANGED <<self, native, last, colors, rendered, files, cursor, handles>>

-----------------------------------------------------------------------------
(* The colour objects of the codec specification: per slot an RGBColor, the *)
(* EncodedRGBColor value made from it (-1: none yet) and the RGBColor       *)
(* decoded from that (<<>>: none yet)                                       *)

Slots == {1, 2}
ByteSamples == {0, 1, 128, 255}

FreshColor(c) == [rgb |-> c, enc |-> -1, dec |-> <<>>]

NewColor(s, r, g, b) ==
    /\ colors' = [colors EXCEPT ![s] = FreshColor(<<r, g, b>>)]
    /\ UNCHANGED <<self, native, last, io, handles>>

Encode(s) ==
    /\ colors[s].enc = -1
    /\ colors' = [colors EXCEPT ![s].enc = RGBColor_encode(colors[s].rgb)]
    /\ UNCHANGED <<self, native, last, io, handles>>

Decode(s) ==
    /\ colors[s].enc # -1
    /\ colors[s].dec = <<>>
    /\ colors' = [colors EXCEPT ![s].dec = EncodedRGBColor_decode(colors[s].enc)]
    /\ UNCHANGED <<self, native, last, io, handles>>

-----------------------------------------------------------------------------
(* Inputs *)

Xs == -Slack .. CanvasW - 1 + Slack
Ys == -Slack .. CanvasH - 1 + Slack
LineXs == -Slack .. LineW - 1 + Slack
LineYs == -Slack .. LineH - 1 + Slack
Depths == 0 .. MaxDepth

\* "", "a", "ab", "\x7f" (DEL, not printable)
GlyphInputs == {<<>>, <<97>>, <<97, 98>>, <<127>>}
DrawGlyphInputs == {<<>>, <<97>>}
GlyphA == <<97>>
GlyphB == <<98>>
Star == <<42>>
Red == <<255, 0, 0>>
Blue == <<0, 0, 255>>
FgInputs == {NoneColor, Red}
\* the (fg_color, bg_color) argument pairs of the render loop's plot calls
RenderColorArgs == {<<Red, NoneColor>>, <<NoneColor, Blue>>}
\* the float depth arguments are k / FloatUnit, k in 0 .. FloatUnit
FloatUnit == 2 ^ DepthBits
\* the int depth arguments: 0, 1, 2^16 - 1, 2^16, 2^32 - 1
IntSamples == {<<0, 0>>, <<0, 1>>, <<0, 65535>>, <<1, 0>>, <<65535, 65535>>}
\* the (fg_color, bg_color) argument pairs of the plot calls
ColorArgs == {<<NoneColor, NoneColor>>, <<Red, NoneColor>>, <<NoneColor, Blue>>}

-----------------------------------------------------------------------------
(* Specifications *)

NoColors == [s \in Slots |-> FreshColor(<<0, 0, 0>>)]

\* Canvas(w, h) with the default colours and glyph: the object and the
\* native canvas Canvas.__init__ leaves
ConstructedSelf(w, h) ==
    [exists |-> TRUE, obj |-> 1, width |-> w, height |-> h,
     default_fg_color_c |-> to_rgb_c(DefaultFg), default_bg_color_c |-> to_rgb_c(DefaultBg),
     default_ascii_char_c |-> OrdFirst(DefaultGlyph)]

ConstructedNative(w, h) ==
    canvas_create(CUint32(w), CUint32(h), to_rgb_c(DefaultFg),
                  to_rgb_c(DefaultBg), OrdFirst(DefaultGlyph))

\* the handle count Canvas.__init__ leaves
ConstructedHandles == [created |-> 1, destroyed |-> 0]

\* the state after canvas = Canvas(CanvasW, CanvasH)
Init ==
    /\ self = ConstructedSelf(CanvasW, CanvasH)
    /\ native = ConstructedNative(CanvasW, CanvasH)
    /\ last = NoCall
    /\ colors = NoColors
    /\ depths = NoDepths
    /\ rendered = NoRender
    /\ files = NoFiles
    /\ cursor = NoCursor
    /\ handles = ConstructedHandles

\* any sequence of plot, clear, draw_point and draw_line calls
Next ==
    \/ \E x \in Xs, y \in Ys, g \in GlyphInputs, c \in ColorArgs, d \in Depths :
          Canvas_plot(x, y, g, c[1], c[2], d)
    \/ Canvas_clear
    \/ \E x \in Xs, y \in Ys, fg \in FgInputs :
          draw_point(x, y, GlyphA, fg, NoneColor, DefaultPlotDepth)
    \/ \E x0 \in Xs, x1 \in Xs, y1 \in Ys :
          draw_line(x0, 0, x1, y1, GlyphA, NoneColor, NoneColor, DefaultPlotDepth)

Spec == Init /\ [][Next]_vars

\* the rasterizer's calls in any order, over cells some of which a plot has
\* put nearer than the lines drawn
NextDraw ==
    \/ \E x \in Xs, y \in Ys, g \in DrawGlyphInputs, d \in Depths :
          draw_point(x, y, g, NoneColor, NoneColor, d)
    \/ \E x0 \in Xs, y0 \in Ys, x1 \in Xs, y1 \in Ys, g \in DrawGlyphInputs :
          draw_line(x0, y0, x1, y1, g, NoneColor, NoneColor, DefaultPlotDepth)
    \/ \E x \in 0 .. CanvasW - 1, y \in 0 .. CanvasH - 1 :
          Canvas_plot(x, y, GlyphB, Red, NoneColor, DefaultPlotDepth + 1)
    \/ Canvas_clear

SpecDraw == Init /\ [][NextDraw]_vars

\* before any Canvas is constructed
InitCreate ==
    /\ self = NoSelf
    /\ native = NoCanvas
    /\ last = NoCall
    /\ colors = NoColors
    /\ depths = NoDepths
    /\ rendered = NoRender
    /\ files = NoFiles
    /\ cursor = NoCursor
    /\ handles = NoHandles

NextCreate ==
    \/ \E w \in {0, CanvasW}, h \in {0, CanvasH}, g \in GlyphInputs \cup {DefaultGlyph} :
          Canvas_init(w, h, DefaultFg, DefaultBg, g)
    \/ \E x \in Xs, y \in Ys, fg \in FgInputs, d \in Depths :
          Canvas_plot(x, y, Star, fg, NoneColor, d)
    \/ Canvas_clear

SpecCreate == InitCreate /\ [][NextCreate]_vars

\* canvas = Canvas(LineW, LineH) and one draw_line call about to be made
InitLine ==
    /\ self = ConstructedSelf(LineW, LineH)
    /\ native = ConstructedNative(LineW, LineH)
    /\ \E x0 \in LineXs, y0 \in LineYs, x1 \in LineXs, y1 \in LineYs :
          last = CallRec("draw_line", x0, y0, x1, y1, Star, Red, NoneColor, DefaultPlotDepth)
    /\ colors = NoColors
    /\ depths = NoDepths
    /\ rendered = NoRender
    /\ files = NoFiles
    /\ cursor = NoCursor
    /\ handles = ConstructedHandles

RunLine ==
    /\ last.op = "draw_line"
    /\ last.result = "pending"
    /\ draw_line(last.x, last.y, last.x1, last.y1, last.glyph, last.fg, last.bg, last.depth)

NextLine == RunLine \/ (last.result # "pending" /\ Canvas_clear)

SpecLine == InitLine /\ [][NextLine]_vars

InitCodec == Init

NextCodec ==
    \/ \E s \in Slots, r \in ByteSamples, g \in ByteSamples, b \in ByteSamples :
          NewColor(s, r, g, b)
    \/ \E s \in Slots : Encode(s)
    \/ \E s \in Slots : Decode(s)

SpecCodec == InitCodec /\ [][NextCodec]_vars

\* canvas = Canvas(w, h) for every size up to CanvasW x RenderH
InitRender ==
    /\ \E w \in 1 .. CanvasW, h \in 1 .. RenderH :
          self = ConstructedSelf(w, h) /\ native = ConstructedNative(w, h)
    /\ last = NoCall
    /\ colors = NoColors
    /\ depths = NoDepths
    /\ rendered = NoRender
    /\ files = NoFiles
    /\ cursor = NoCursor
    /\ handles = ConstructedHandles

\* the render loop: plots, renders in both modes, clears
NextRender ==
    \/ \E x \in 0 .. CanvasW - 1, y \in 0 .. RenderH - 1, c \in RenderColorArgs :
          Canvas_plot(x, y, Star, c[1], c[2], DefaultPlotDepth)
    \/ \E with_bg \in BOOLEAN : Canvas_print_formatted("stdout", with_bg)
    \/ Canvas_clear

SpecRender == InitRender /\ [][NextRender]_vars

\* the life of Canvas objects, one after the other: constructed, used,
\* dropped
NextLife ==
    \/ \E w \in {0, CanvasW}, g \in {<<>>, DefaultGlyph} :
          handles.created < MaxObjects /\ Canvas_init(w, CanvasH, DefaultFg, DefaultBg, g)
    \/ \E x \in 0 .. CanvasW - 1, fg \in FgInputs :
          Canvas_plot(x, 0, Star, fg, NoneColor, DefaultPlotDepth)
    \/ Canvas_clear
    \/ \E out \in Streams : Canvas_print_formatted(out, FALSE)
    \/ Canvas_del

SpecLife == InitCreate /\ [][NextLife]_vars

\* the examples' main loop: with hidden_cursor(): plot, print_formatted,
\* clear, repeated; the body ends normally, by a KeyboardInterrupt, or by the
\* exception a canvas call raised
NextCursor ==
    \/ cursor.hides < MaxBlocks /\ hidden_cursor_enter
    \/ \E x \in 0 .. CanvasW :
          /\ cursor.pc = "body" /\ last.result \notin Raised
          /\ Canvas_plot(x, 0, Star, NoneColor, NoneColor, DefaultPlotDepth)
    \/ /\ cursor.pc = "body" /\ last.result \notin Raised
       /\ Canvas_print_formatted("stdout", FALSE)
    \/ /\ cursor.pc = "body" /\ last.result \notin Raised
       /\ Canvas_clear
    \/ \E exc \in {"none", "KeyboardInterrupt"} \cup Raised :
          /\ IF last.result \in Raised THEN exc = last.result ELSE exc \notin Raised
          /\ hidden_cursor_exit(exc)

SpecCursor == Init /\ [][NextCursor]_vars

\* two float arguments, one int argument, and the constructors applied
InitDepth ==
    /\ self = ConstructedSelf(CanvasW, CanvasH)
    /\ native = ConstructedNative(CanvasW, CanvasH)
    /\ last = NoCall
    /\ colors = NoColors
    /\ \E x \in 0 .. FloatUnit, y \in 0 .. FloatUnit, n \in IntSamples :
          depths = DepthSamples(x, y, n)
    /\ rendered = NoRender
    /\ files = NoFiles
    /\ cursor = NoCursor
    /\ handles = ConstructedHandles

NextDepth == FromFloat(FloatUnit) \/ FromInt

SpecDepth == InitDepth /\ [][NextDepth]_vars

-----------------------------------------------------------------------------
(* Vocabulary of the claims *)

\* (x, y) lies in [0, width) x [0, height) of the canvas
InGrid(x, y) == 0 <= x /\ x < self.width /\ 0 <= y /\ y < self.height

\* a str of exactly one character in 0x20 .. 0x7E
ValidGlyph(g) == Len(g) = 1 /\ 32 <= g[1] /\ g[1] <= 126

\* the packed 24-bit value of a colour triple
Packed(c) == c[1] * 65536 + c[2] * 256 + c[3]

\* the cell a call's arguments describe: its glyph character, its colours
\* (the canvas default where the argument is None) and its depth
CallCell(call) ==
    [glyph |-> call.glyph[1],
     fg |-> Packed(IF call.fg = NoneColor THEN self.default_fg_color_c ELSE call.fg),
     bg |-> Packed(IF call.bg = NoneColor THEN self.default_bg_color_c ELSE call.bg),
     depth |-> <<0, call.depth>>]

\* the cell every constructor default describes: " ", white on black, depth 0
ConstructionDefaults == [glyph |-> 32, fg |-> 16777215, bg |-> 0, depth |-> <<0, 0>>]

-----------------------------------------------------------------------------
(* Claims *)

\* C1: for every byte triple, decode(encode(r, g, b)) is exactly (r, g, b),
\* and two different triples never encode to the same packed value.
C1_RoundTripInjective ==
    /\ \A s \in Slots : colors[s].dec # <<>> => colors[s].dec = colors[s].rgb
    /\ \A s \in Slots, t \in Slots :
          (colors[s].enc # -1 /\ colors[t].enc # -1 /\ colors[s].rgb # colors[t].rgb)
             => colors[s].enc # colors[t].enc

\* C1 witness: a colour with three different channels has been encoded and
\* decoded, and a second, different colour has been encoded too
C1_Witness ==
    /\ colors[1].rgb = <<128, 255, 1>>
    /\ colors[1].dec = <<128, 255, 1>>
    /\ colors[2].rgb = <<255, 128, 1>>
    /\ colors[2].enc # -1

\* C2: after a clear() every cell of the width x height grid holds the
\* defaults fixed at construction, whatever was plotted or drawn before, and
\* no operation changes the defaults themselves.
C2_ClearResetsToDefaults ==
    /\ (last.op = "clear" /\ last.result = "ok") =>
          /\ DOMAIN native.cells = Cells(self.width, self.height)
          /\ \A p \in DOMAIN native.cells : native.cells[p] = ConstructionDefaults
    /\ self.default_fg_color_c = <<255, 255, 255>>
    /\ self.default_bg_color_c = <<0, 0, 0>>
    /\ self.default_ascii_char_c = 32
    /\ DefaultCell(native) = ConstructionDefaults

\* C2 witness: a clear has just run and the grid is all defaults
C2_Witness ==
    /\ last.op = "clear"
    /\ last.result = "ok"
    /\ native.cells = [p \in Cells(CanvasW, CanvasH) |-> ConstructionDefaults]

\* C3: a plot at an in-bounds (x, y) with a valid glyph and a depth that
\* passes the depth test sets that cell to the call's glyph, colours (the
\* canvas defaults where omitted) and depth, and changes no other cell.
C3_PlotWritesExactlyTheCell ==
    [][(/\ last'.op = "plot"
        /\ InGrid(last'.x, last'.y)
        /\ ValidGlyph(last'.glyph)
        /\ last'.depth >= U32Int(native.cells[<<last'.x, last'.y>>].depth))
       => /\ last'.result = "ok"
          /\ native'.cells[<<last'.x, last'.y>>] = CallCell(last')
          /\ \A q \in DOMAIN native.cells \ {<<last'.x, last'.y>>} :
                native'.cells[q] = native.cells[q]
          /\ DOMAIN native'.cells = DOMAIN native.cells]_vars

\* C3 witness: the latest plot omitted fg and gave bg; its cell holds the
\* default white, the given blue and the call's depth, and the other cell
\* still holds what an earlier plot wrote
C3_Witness ==
    /\ last.op = "plot"
    /\ last.result = "ok"
    /\ last.x = 0 /\ last.y = 0
    /\ last.glyph = <<97>> /\ last.fg = NoneColor /\ last.bg = Blue /\ last.depth = 1
    /\ native.cells[<<0, 0>>] = [glyph |-> 97, fg |-> 16777215, bg |-> 255, depth |-> <<0, 1>>]
    /\ native.cells[<<1, 0>>] = [glyph |-> 97, fg |-> 16711680, bg |-> 0, depth |-> <<0, 0>>]

\* C4: a plot at an in-bounds (x, y) whose depth fails the depth test against
\* the cell's current depth changes nothing and reports no error; one
\* comparison decides every plot: the write is committed exactly when the
\* call's depth is not below the cell's.
C4_DepthRejectIsNoOp ==
    [][(/\ last'.op = "plot"
        /\ InGrid(last'.x, last'.y)
        /\ last'.reached)
       => IF last'.depth < U32Int(native.cells[<<last'.x, last'.y>>].depth)
          THEN last'.result = "ok" /\ native' = native
          ELSE IsPrintable(last'.glyph[1]) =>
                  native'.cells[<<last'.x, last'.y>>].depth = <<0, last'.depth>>]_vars

\* C4 witness: the latest plot asked for red at depth 0 on a cell that holds
\* depth 1; it returned normally and the cell still holds white at depth 1
C4_Witness ==
    /\ last.op = "plot"
    /\ last.result = "ok"
    /\ last.reached
    /\ last.x = 0 /\ last.y = 0 /\ last.depth = 0 /\ last.fg = Red
    /\ last.glyph = <<97>>
    /\ native.cells[<<0, 0>>].depth = <<0, 1>>
    /\ native.cells[<<0, 0>>].fg = 16777215

\* C5: Canvas.plot fails with OutOfBounds for every coordinate outside
\* [0, width) x [0, height), negative ones included, and no such call reaches
\* the native plot routine.
C5_OutOfBoundsAlwaysRaises ==
    (last.op = "plot" /\ ~InGrid(last.x, last.y) /\ ValidGlyph(last.glyph))
       => (last.result = "OutOfBounds" /\ ~last.reached)

\* C6: constructing a canvas with width zero, height zero or a default glyph
\* that is not a single printable character fails (an exception is raised)
\* and creates no native canvas.
C6_BadConstructionRaises ==
    (last.op = "init" /\ (last.x = 0 \/ last.y = 0 \/ ~ValidGlyph(last.glyph)))
       => (last.result # "ok" /\ ~last.reached /\ ~self.exists /\ ~native.allocated)

\* C7: every cell's glyph is one character in 0x20 .. 0x7E, and a plot or
\* draw call on a cell of the grid given a glyph that is empty, longer than
\* one character or outside 0x20 .. 0x7E fails (an exception is raised)
\* instead of storing, truncating or substituting it.
C7_InvalidGlyphRaises ==
    /\ \A p \in DOMAIN native.cells : IsPrintable(native.cells[p].glyph)
    /\ (/\ last.op \in {"plot", "draw_point"}
        /\ InGrid(last.x, last.y)
        /\ ~ValidGlyph(last.glyph))
       => last.result # "ok"

\* C8: a plot call is all-or-nothing on its target cell: afterwards the cell
\* holds all four values the call supplies (its glyph character, colours and
\* depth) or all four of its previous values; a call that raises leaves the
\* whole canvas unchanged.
C8_PlotAllOrNothing ==
    [][(last'.op = "plot") =>
          /\ InGrid(last'.x, last'.y) =>
                \/ native'.cells[<<last'.x, last'.y>>] = native.cells[<<last'.x, last'.y>>]
                \/ /\ last'.glyph # <<>>
                   /\ native'.cells[<<last'.x, last'.y>>] = CallCell(last')
          /\ last'.result \in {"OutOfBounds", "IndexError"} => native' = native]_vars

\* C8 witness: a plot beyond the right edge has raised OutOfBounds and the
\* cell an earlier plot wrote still holds all four of that plot's values
C8_Witness ==
    /\ last.op = "plot"
    /\ last.result = "OutOfBounds"
    /\ last.x = CanvasW
    /\ last.fg = Red
    /\ native.cells[<<0, 0>>] = [glyph |-> 97, fg |-> 16777215, bg |-> 255, depth |-> <<0, 1>>]

\* the larger of the two coordinate distances between two cells
Cheb(a, b) ==
    IF Abs(a[1] - b[1]) >= Abs(a[2] - b[2]) THEN Abs(a[1] - b[1]) ELSE Abs(a[2] - b[2])

SeqRange(q) == {q[i] : i \in 1 .. Len(q)}

\* C9: draw_line visits a chain of cells that starts at (x0, y0), ends at
\* (x1, y1), moves to an adjacent cell at every step (no gap) and holds no
\* cell twice, in every direction and for a single point; a horizontal line
\* visits exactly the cells between its endpoints; and every cell of the chain
\* on the canvas holds the call's glyph, colours and depth, no other cell
\* being touched.
C9_LineIsGapFreeChain ==
    (last.op = "draw_line" /\ last.result = "ok") =>
       LET cs == last.cells
           n == Len(cs)
       IN /\ n >= 1
          /\ cs[1] = <<last.x, last.y>>
          /\ cs[n] = <<last.x1, last.y1>>
          /\ \A i \in 1 .. n - 1 : Cheb(cs[i], cs[i + 1]) = 1
          /\ \A i \in 1 .. n, j \in 1 .. n : i # j => cs[i] # cs[j]
          /\ last.y = last.y1 =>
                /\ n = Abs(last.x1 - last.x) + 1
                /\ \A i \in 1 .. n : cs[i][2] = last.y
          /\ \A p \in DOMAIN native.cells :
                native.cells[p] = IF p \in SeqRange(cs) THEN CallCell(last)
                                  ELSE ConstructionDefaults

\* C9 witness: the line from (0,0) to (4,0) has been drawn: it visited
\* (0,0),(1,0),(2,0),(3,0),(4,0) and those five cells hold the star
C9_Witness ==
    /\ last.op = "draw_line"
    /\ last.result = "ok"
    /\ last.cells = << <<0, 0>>, <<1, 0>>, <<2, 0>>, <<3, 0>>, <<4, 0>> >>
    /\ \A x \in 0 .. 4 : native.cells[<<x, 0>>].glyph = 42
    /\ native.cells[<<0, 1>>].glyph = 32

\* the cells of the canvas a draw call covers
CoveredCells(call) ==
    (IF call.op = "draw_point" THEN {<<call.x, call.y>>}
     ELSE SeqRange(LineCells(call.x, call.y, call.x1, call.y1)))
       \cap DOMAIN native.cells

\* C10: the rasterizer clips per cell.  A draw_point or draw_line call given
\* a glyph character reports no error wherever it lies; a call that covers no
\* cell of the canvas leaves every cell unchanged; a call that is partly
\* outside writes each cell of the canvas it covers (the depth test
\* permitting) and touches nothing else.
C10_DrawClipsPerCell ==
    [][(last'.op \in {"draw_point", "draw_line"}) =>
          /\ last'.glyph # <<>> => last'.result = "ok"
          /\ CoveredCells(last') = {} => native' = native
          /\ \A q \in DOMAIN native.cells \ CoveredCells(last') :
                native'.cells[q] = native.cells[q]
          /\ ValidGlyph(last'.glyph) =>
                \A p \in CoveredCells(last') :
                   native'.cells[p] =
                      IF last'.depth >= U32Int(native.cells[p].depth)
                      THEN CallCell(last') ELSE native.cells[p]]_vars

\* C10 witness: the line from (-1,0) to (1,0) starts left of the canvas; it
\* returned normally and both cells of the canvas it crosses hold its glyph
C10_Witness ==
    /\ last.op = "draw_line"
    /\ last.result = "ok"
    /\ last.x = -1 /\ last.y = 0 /\ last.x1 = 1 /\ last.y1 = 0
    /\ last.cells[1] = <<-1, 0>>
    /\ native.cells[<<0, 0>>].glyph = 97
    /\ native.cells[<<1, 0>>].glyph = 97

-----------------------------------------------------------------------------
(* Vocabulary of the render claims *)

\* the latest call was a render that returned: the canvas is as it was drawn
RenderDone == last.op = "print" /\ last.result = "ok"

\* the positions of the tokens of the given kinds in a token sequence
KindPositions(toks, kinds) == {i \in 1 .. Len(toks) : toks[i].k \in kinds}

\* the position of the n-th glyph token
GlyphPosition(toks, n) ==
    CHOOSE i \in KindPositions(toks, {"glyph"}) :
        Cardinality({j \in KindPositions(toks, {"glyph"}) : j <= i}) = n

\* the cell the n-th glyph of a frame belongs to, rows top to bottom, each
\* left to right
FrameCell(n) == <<(n - 1) % native.w, (n - 1) \div native.w>>

\* an escape of the given kind stands between the glyph at position i and the
\* token before that cell's escapes
EscapeBefore(toks, i, kind) ==
    \E j \in {i - 1, i - 2} :
        /\ j >= 1
        /\ toks[j].k = kind
        /\ \A m \in j + 1 .. i - 1 : toks[m].k \in {"fg", "bg"}

\* the colour of the given plane differs between a cell and its left
\* neighbour, or the cell starts a row
StartsRun(p, plane) ==
    \/ p[1] = 0
    \/ native.cells[p][plane] # native.cells[<<p[1] - 1, p[2]>>][plane]

LineGlyphs(toks, r) ==
    {i \in KindPositions(toks, {"glyph"}) :
        Cardinality({j \in KindPositions(toks, {"nl"}) : j < i}) = r - 1}

\* C12: a render writes one text line per canvas row, each holding that row's
\* glyphs and ended by a newline; the reset is written at the end of every
\* row (just before its newline) and at the end of the frame, so the last
\* colour-affecting sequence of a render, and its last token, is a reset
\* whatever colour the last cell has.
C12_RowsAndResets ==
    RenderDone =>
       LET toks == rendered.tokens
           nls == KindPositions(toks, {"nl"})
           colorish == KindPositions(toks, {"fg", "bg", "reset"})
       IN /\ Cardinality(nls) = native.h
          /\ \A r \in 1 .. native.h : Cardinality(LineGlyphs(toks, r)) = native.w
          /\ \A i \in KindPositions(toks, {"glyph"}) : \E j \in nls : j > i
          /\ \A j \in nls : j > 1 /\ toks[j - 1].k = "reset"
          /\ Cardinality(KindPositions(toks, {"reset"})) = native.h + 1
          /\ Len(toks) >= 1
          /\ toks[Len(toks)].k = "reset"
          /\ \A i \in colorish : \E j \in colorish : j >= i /\ toks[j].k = "reset"

\* C12 witness: a 2x2 canvas whose last cell is a star on blue was rendered
\* with backgrounds: two newlines, three resets, the last token a reset
C12_Witness ==
    /\ RenderDone
    /\ native.w = 2 /\ native.h = 2
    /\ rendered.with_bg
    /\ native.cells[<<1, 1>>].bg = 255
    /\ Cardinality(KindPositions(rendered.tokens, {"nl"})) = 2
    /\ Cardinality(KindPositions(rendered.tokens, {"reset"})) = 3
    /\ rendered.tokens[Len(rendered.tokens)] = Tok("reset", 0)

\* C13: a render with with_bg false (print_formatted's default, which selects
\* the foreground-only routine) holds no background escape, whatever the
\* cells' background colours; for a 1x1 canvas holding '*' with foreground
\* (255,0,0) it is the foreground escape for (255,0,0), the glyph and the
\* resets of the row's and the frame's end, nothing else but the newline.
C13_NoBackgroundEscape ==
    (RenderDone /\ ~rendered.with_bg) =>
       LET toks == rendered.tokens
       IN /\ KindPositions(toks, {"bg"}) = {}
          /\ (/\ native.w = 1 /\ native.h = 1
              /\ native.cells[<<0, 0>>].glyph = 42
              /\ native.cells[<<0, 0>>].fg = Packed(Red))
             => /\ toks[1] = Tok("fg", Packed(Red))
                /\ toks[2] = Tok("glyph", 42)
                /\ \A i \in 3 .. Len(toks) : toks[i].k \in {"reset", "nl"}
                /\ \E i \in 3 .. Len(toks) : toks[i].k = "reset"

\* C13 witness: the 1x1 canvas holds a red star and was rendered by the
\* default call
C13_Witness ==
    /\ RenderDone
    /\ ~rendered.with_bg
    /\ native.w = 1 /\ native.h = 1
    /\ native.cells[<<0, 0>>] = [glyph |-> 42, fg |-> 16711680, bg |-> 0, depth |-> <<0, 1>>]
    /\ rendered.tokens = <<Tok("fg", 16711680), Tok("glyph", 42),
                           Tok("reset", 0), Tok("nl", 0), Tok("reset", 0)>>

-----------------------------------------------------------------------------
(* Depth, lifetime and cursor claims *)

\* the largest unsigned 32-bit value, 2^32 - 1, as a wide int
Uint32Max == <<65535, 65535>>

\* C14: CanvasDepth.from_float is monotonic on [0, 1] (a <= b gives
\* from_float(a).value <= from_float(b).value), maps 0 to 0 and 1 to 2^32 - 1,
\* and every result lies in 0 .. 2^32 - 1, so passing it as a 32-bit unsigned
\* does not wrap; from_int(n) has the value n; and the depth test orders
\* depths from either constructor as their values are ordered.
C14_DepthMonotonic ==
    /\ depths.fx # <<>> =>
          /\ depths.x <= depths.y => WideLeq(depths.fx, depths.fy)
          /\ depths.x = 0 => depths.fx = <<0, 0>>
          /\ depths.x = FloatUnit => depths.fx = Uint32Max
          /\ WideLeq(depths.fx, Uint32Max) /\ CUint32W(depths.fx) = depths.fx
          /\ WideLeq(depths.fy, Uint32Max) /\ CUint32W(depths.fy) = depths.fy
          /\ depths.x <= depths.y =>
                DepthTestPasses(CUint32W(depths.fy), CUint32W(depths.fx))
    /\ depths.fn # <<>> =>
          /\ depths.fn = depths.n
          /\ CUint32W(depths.fn) = depths.n
    /\ (depths.fx # <<>> /\ depths.fn # <<>>) =>
          (WideLeq(depths.fn, depths.fx)
             <=> DepthTestPasses(CUint32W(depths.fx), CUint32W(depths.fn)))

\* C14 witness: from_float(1/8) is 536870911, from_float(1.0) is 2^32 - 1 and
\* from_int(2^32 - 1) is the same value
C14_Witness ==
    /\ depths.x * 8 = FloatUnit
    /\ depths.y = FloatUnit
    /\ depths.fx = <<8191, 65535>>
    /\ depths.fy = Uint32Max
    /\ depths.fn = Uint32Max

\* C15: the native stream handle print_formatted uses is opened before the
\* render and closed after it on every exit path, so that once a render call
\* is over (and so between any two render calls) no native handle for a
\* stream is open.
C15_StreamBracketsRender ==
    \A s \in Streams : ~files[s].open

\* C16: canvas_destroy is called once for every handle canvas_create returned
\* and for nothing else: never more often than handles were created, not for
\* an object whose _obj is None (construction failed or returned no handle),
\* exactly once by the time the object is gone; and a clear, plot or render
\* call that reached the native library was issued on a handle not yet
\* destroyed.
C16_HandleReleasedOnce ==
    /\ handles.destroyed <= handles.created
    /\ ~self.exists => (handles.destroyed = handles.created /\ ~native.allocated)
    /\ self.exists =>
          handles.destroyed = handles.created - (IF self.obj # 0 THEN 1 ELSE 0)
    /\ (self.exists /\ self.obj # 0) => native.allocated
    /\ (last.op \in {"clear", "plot", "print"} /\ last.reached /\ last.result = "ok")
          => native.allocated

\* C16 witness: two canvases were created one after the other, the second has
\* just been dropped, and canvas_destroy was called twice in all
C16_Witness ==
    /\ last.op = "del"
    /\ last.reached
    /\ ~self.exists
    /\ handles = [created |-> 2, destroyed |-> 2]

\* C17: whenever a hidden_cursor() block has been left, normally, by
\* KeyboardInterrupt or by any other exception of its body, the show-cursor
\* sequence was written after the hide-cursor sequence: outside the block the
\* cursor is not hidden, and as many shows as hides were written.
C17_CursorShownAfterBlock ==
    cursor.pc = "outside" => (~cursor.hidden /\ cursor.shows = cursor.hides)

====
